---- MODULE Spec2Model ----
(***************************************************************************)
(* kevent_wrapper (Sources/CKeventShim/kevent_shim.c): a C shim whose body *)
(* is the single statement                                                 *)
(*     return kevent(kq, changelist, nchanges, eventlist, nevents,         *)
(*                   timeout);                                             *)
(* The shim is modelled together with the kernel primitive it calls.  The  *)
(* kernel side (descriptor table, knotes, change processing, scan, sleep)  *)
(* follows kqueue(2)/kevent(2) as included through <sys/event.h>; the shim *)
(* side (ShimArgs, ShimReturn, ShimAfterKernel, ShimMayEnter) follows the  *)
(* C source.                                                               *)
(***************************************************************************)
EXTENDS Integers, Sequences, FiniteSets, TLC

\* ------------------------------------------------------------- bounds
MaxChanges == 2
MaxEvents == 2

\* ------------------------------------------------- platform constants
EBADF == 9
EINTR == 4
ENOENT == 2

Threads == {1, 2}
\* descriptor numbers a caller may pass as kq
QueueFds == {3, 4}
\* descriptor numbers used as event identifiers: 5 is an open pipe end (9,
\* used in BadChanges, is a descriptor closed before any call)
OpenIdents == {5}
Filters == {"EVFILT_READ", "EVFILT_WRITE"}
Tags == {"A", "B"}
Timeouts == {"NULL", "zero", "finite"}

Key(r) == <<r.ident, r.filter>>
Keys == OpenIdents \X Filters

Min(a, b) == IF a < b THEN a ELSE b

\* struct kevent as a change record
Kevent(i, f, fl, u) == [ident |-> i, filter |-> f, flags |-> fl, udata |-> u]

\* the registration the kernel keeps for one (ident, filter) pair
Knote(kev) == [ident |-> kev.ident, filter |-> kev.filter, udata |-> kev.udata]

\* struct kevent as the kernel writes it for a ready knote
Event(kn) ==
  [ident |-> kn.ident, filter |-> kn.filter, flags |-> {}, data |-> 0,
   udata |-> kn.udata]

\* struct kevent as the kernel writes it for a change it rejected
ErrorEvent(kev, e) ==
  [ident |-> kev.ident, filter |-> kev.filter, flags |-> {"EV_ERROR"},
   data |-> e, udata |-> kev.udata]

\* the six arguments of kevent_wrapper / kevent
Args(q, cl, nc, ne, to) ==
  [kq |-> q, changelist |-> cl, nchanges |-> nc, nevents |-> ne, timeout |-> to]

NoArgs == Args(0, <<>>, 0, 0, "zero")
NoResult == [ret |-> 0, err |-> 0]

\* ------------------------------------------------------------ the shim
\* return kevent(kq, changelist, nchanges, eventlist, nevents, timeout);
\* the arguments reach the kernel as given (ShimArgs); the three variants
\* before it are faulty shims: the two counts swapped, the timeout dropped,
\* the change count dropped
ShimArgsSwapped(a) ==
  [a EXCEPT !.nchanges = a.nevents, !.nevents = a.nchanges]

ShimArgsForever(a) == [a EXCEPT !.timeout = "NULL"]

ShimArgsNoChanges(a) == [a EXCEPT !.nchanges = 0]

ShimArgs(a) == a

\* ... and the kernel's return value (with the thread's errno) is returned
\* (ShimReturn); the faulty variant turns a failure into a count of 0
ShimReturnClamped(r) == IF r.ret < 0 THEN [ret |-> 0, err |-> 0] ELSE r

ShimReturn(r) == r

\* the shim returns after the kernel call whatever it reported
\* (ShimAfterKernel); the faulty variant calls again after EINTR
ShimAfterKernelRetry(r) ==
  IF r.ret = -1 /\ r.err = EINTR THEN "reissue" ELSE "return"

ShimAfterKernel(r) == "return"

\* ---------------------------------------------------------- the kernel
\* kqueue_register: one change record applied to a queue's knotes; a knote
\* is found by its (ident, filter) and replaced (KnoteRegister), where the
\* faulty variant before it adds a knote without looking for one
KnoteRegisterAppend(kns, kev) ==
  LET old == {kn \in kns : Key(kn) = Key(kev)}
  IN  IF kev.ident \notin OpenIdents THEN [error |-> EBADF, knotes |-> kns]
      ELSE IF "EV_DELETE" \in kev.flags
        THEN IF old = {} THEN [error |-> ENOENT, knotes |-> kns]
                         ELSE [error |-> 0, knotes |-> kns \ old]
        ELSE [error |-> 0, knotes |-> kns \cup {Knote(kev)}]

KnoteRegister(kns, kev) ==
  LET old == {kn \in kns : Key(kn) = Key(kev)}
  IN  IF kev.ident \notin OpenIdents THEN [error |-> EBADF, knotes |-> kns]
      ELSE IF old = {}
        THEN IF "EV_ADD" \in kev.flags
               THEN [error |-> 0, knotes |-> kns \cup {Knote(kev)}]
               ELSE [error |-> ENOENT, knotes |-> kns]
        ELSE IF "EV_DELETE" \in kev.flags
               THEN [error |-> 0, knotes |-> kns \ old]
               ELSE [error |-> 0, knotes |-> (kns \ old) \cup {Knote(kev)}]

\* the change records the kernel reads: nchanges of them from changelist
ChangesRead(a) == SubSeq(a.changelist, 1, Min(a.nchanges, Len(a.changelist)))

\* sequences of n distinct elements of S
Arrangements(S, n) ==
  {s \in [1..n -> S] : \A i, j \in 1..n : i # j => s[i] # s[j]}

VARIABLES
  isopen,   \* isopen[fd]: fd names an open kernel event queue
  closed,   \* closed[fd]: a queue that carried number fd has been closed
  regs,     \* regs[fd]: the knotes of the queue fd names
  ready,    \* the (ident, filter) pairs whose source is ready
  pc,       \* pc[t]: where thread t is in its call
  handle,   \* handle[t]: the QueueDescriptor the caller holds for the number
  wargs,    \* wargs[t]: the arguments kevent_wrapper was called with
  kargs,    \* kargs[t]: the arguments kevent was called with
  ninvoke,  \* ninvoke[t]: kernel invocations made by the current call
  ci,       \* ci[t]: change records the kernel has processed
  regs0,    \* regs0[t]: the queue's knotes when the kernel call began
  evl,      \* evl[t]: the records written to the caller's eventlist
  kres,     \* kres[t]: what kevent returned (value and errno)
  wres,     \* wres[t]: what kevent_wrapper returned
  slept,    \* slept[t]: the call slept waiting for events
  intr      \* intr[t]: a signal interrupted the call's sleep

vars ==
  <<isopen, closed, regs, ready, pc, handle, wargs, kargs, ninvoke, ci, regs0,
    evl, kres, wres, slept, intr>>

qvars == <<isopen, closed>>
tvars == <<handle, wargs, kargs, ninvoke, ci, regs0, evl, kres, wres, slept, intr>>

\* ----------------------------------------------------------- the inputs
AddChanges ==
  {Kevent(i, "EVFILT_READ", {"EV_ADD"}, u) : i \in OpenIdents, u \in Tags}
    \cup {Kevent(i, "EVFILT_WRITE", {"EV_ADD"}, "A") : i \in OpenIdents}
DeleteChanges == {Kevent(i, "EVFILT_READ", {"EV_DELETE"}, "A") : i \in OpenIdents}
BadChanges == {Kevent(9, "EVFILT_READ", {"EV_ADD"}, "A")}
Changes == AddChanges \cup DeleteChanges \cup BadChanges

Batches == UNION {[1..n -> Changes] : n \in 0..MaxChanges}

\* the inputs of the two-thread specification
SmallChanges ==
  {Kevent(5, "EVFILT_READ", {"EV_ADD"}, "A"), Kevent(5, "EVFILT_READ", {"EV_DELETE"}, "A")}

SmallBatches == UNION {[1..n -> SmallChanges] : n \in 0..1}

InitCommon ==
  /\ regs = [fd \in QueueFds |-> {}]
  /\ ready = {}
  /\ pc = [t \in Threads |-> "idle"]
  /\ handle = [t \in Threads |-> "none"]
  /\ wargs = [t \in Threads |-> NoArgs]
  /\ kargs = [t \in Threads |-> NoArgs]
  /\ ninvoke = [t \in Threads |-> 0]
  /\ ci = [t \in Threads |-> 0]
  /\ regs0 = [t \in Threads |-> {}]
  /\ evl = [t \in Threads |-> <<>>]
  /\ kres = [t \in Threads |-> NoResult]
  /\ wres = [t \in Threads |-> NoResult]
  /\ slept = [t \in Threads |-> FALSE]
  /\ intr = [t \in Threads |-> FALSE]

\* one queue has been created under number 3; number 4 was never opened
Init ==
  /\ InitCommon
  /\ isopen = [fd \in QueueFds |-> fd = 3]
  /\ closed = [fd \in QueueFds |-> FALSE]

\* two queues have been created
InitConc ==
  /\ InitCommon
  /\ isopen = [fd \in QueueFds |-> TRUE]
  /\ closed = [fd \in QueueFds |-> FALSE]

InCall(fd) == \E t \in Threads : pc[t] # "idle" /\ wargs[t].kq = fd

\* ------------------------------------------------------ the environment
\* the owner creates a queue and the kernel names it fd (a number that a
\* closed queue carried before may be handed out again)
OpenQueue(fd) ==
  /\ ~isopen[fd]
  /\ ~InCall(fd)
  /\ isopen' = [isopen EXCEPT ![fd] = TRUE]
  /\ UNCHANGED <<closed, regs, ready, pc, tvars>>

\* the owner closes a queue that has no call in flight; its knotes go
CloseQueue(fd) ==
  /\ isopen[fd]
  /\ ~InCall(fd)
  /\ isopen' = [isopen EXCEPT ![fd] = FALSE]
  /\ closed' = [closed EXCEPT ![fd] = TRUE]
  /\ regs' = [regs EXCEPT ![fd] = {}]
  /\ UNCHANGED <<ready, pc, tvars>>

\* a source becomes ready (data arrives) or stops being ready (is drained)
SourceReady(k) ==
  /\ k \notin ready
  /\ ready' = ready \cup {k}
  /\ UNCHANGED <<qvars, regs, pc, tvars>>

SourceDrained(k) ==
  /\ k \in ready
  /\ ready' = ready \ {k}
  /\ UNCHANGED <<qvars, regs, pc, tvars>>

\* ------------------------------------------------------------ the call
\* the QueueDescriptors a caller can hold for number fd: that of the queue
\* open under it, that of a queue closed earlier, or a number never opened
Handles(fd) ==
  {h \in {"open", "closed", "never"} :
     \/ h = "open" /\ isopen[fd]
     \/ h = "closed" /\ closed[fd]
     \/ h = "never" /\ ~isopen[fd] /\ ~closed[fd]}

\* the caller invokes kevent_wrapper with a QueueDescriptor it holds
Call(t, fds, batches, caps, touts) ==
  /\ pc[t] = "idle"
  /\ \E fd \in fds, cl \in batches, ne \in caps, to \in touts :
       \E h \in Handles(fd) :
         /\ handle' = [handle EXCEPT ![t] = h]
         /\ wargs' = [wargs EXCEPT ![t] = Args(fd, cl, Len(cl), ne, to)]
  /\ pc' = [pc EXCEPT ![t] = "wrapper"]
  /\ UNCHANGED <<qvars, regs, ready, kargs, ninvoke, ci, regs0, evl, kres, wres, slept, intr>>

\* kevent_wrapper holds no lock and no static state: a thread that entered
\* it calls the kernel whatever other threads are doing (ShimMayEnter); the
\* faulty variant serialises the kernel calls
ShimMayEnterLocked(t) ==
  \A u \in Threads \ {t} : pc[u] \notin {"register", "scan", "blocked", "kdone"}

ShimMayEnter(t) == TRUE

\* kevent_wrapper calls kevent; the kernel looks the descriptor up
Invoke(t) ==
  /\ pc[t] = "wrapper"
  /\ ShimMayEnter(t)
  /\ LET a == ShimArgs(wargs[t]) IN
       /\ kargs' = [kargs EXCEPT ![t] = a]
       /\ ninvoke' = [ninvoke EXCEPT ![t] = @ + 1]
       /\ ci' = [ci EXCEPT ![t] = 0]
       /\ evl' = [evl EXCEPT ![t] = <<>>]
       /\ IF a.kq \in QueueFds /\ isopen[a.kq]
            THEN /\ pc' = [pc EXCEPT ![t] = "register"]
                 /\ regs0' = [regs0 EXCEPT ![t] = regs[a.kq]]
                 /\ kres' = [kres EXCEPT ![t] = NoResult]
            ELSE /\ pc' = [pc EXCEPT ![t] = "kdone"]
                 /\ regs0' = regs0
                 /\ kres' = [kres EXCEPT ![t] = [ret |-> -1, err |-> EBADF]]
  /\ UNCHANGED <<qvars, regs, ready, handle, wargs, wres, slept, intr>>

\* the kernel applies the next change record; a rejected one is reported in
\* the eventlist while there is room, and ends the call with its error
\* when there is none
RegisterStep(t) ==
  /\ pc[t] = "register"
  /\ ci[t] < Len(ChangesRead(kargs[t]))
  /\ LET q == kargs[t].kq
         kev == ChangesRead(kargs[t])[ci[t] + 1]
         r == KnoteRegister(regs[q], kev)
     IN  /\ ci' = [ci EXCEPT ![t] = @ + 1]
         /\ regs' = [regs EXCEPT ![q] = r.knotes]
         /\ IF r.error = 0
              THEN UNCHANGED <<evl, kres, pc>>
              ELSE IF Len(evl[t]) < kargs[t].nevents
                THEN /\ evl' = [evl EXCEPT ![t] = Append(@, ErrorEvent(kev, r.error))]
                     /\ UNCHANGED <<kres, pc>>
                ELSE /\ kres' = [kres EXCEPT ![t] = [ret |-> -1, err |-> r.error]]
                     /\ pc' = [pc EXCEPT ![t] = "kdone"]
                     /\ evl' = evl
  /\ UNCHANGED <<qvars, ready, handle, wargs, kargs, ninvoke, regs0, wres, slept, intr>>

\* all change records are applied: with errors reported the call returns
\* their number, otherwise the kernel looks for ready events
RegisterDone(t) ==
  /\ pc[t] = "register"
  /\ ci[t] = Len(ChangesRead(kargs[t]))
  /\ IF evl[t] # <<>>
       THEN /\ kres' = [kres EXCEPT ![t] = [ret |-> Len(evl[t]), err |-> 0]]
            /\ pc' = [pc EXCEPT ![t] = "kdone"]
       ELSE /\ pc' = [pc EXCEPT ![t] = "scan"]
            /\ kres' = kres
  /\ UNCHANGED <<qvars, regs, ready, handle, wargs, kargs, ninvoke, ci, regs0, evl, wres, slept, intr>>

\* the knotes of queue q whose source is ready
ReadyKnotes(q) == {kn \in regs[q] : Key(kn) \in ready}

\* the kernel copies out up to nevents ready knotes, in an order of its own
Deliver(t) ==
  LET rdy == ReadyKnotes(kargs[t].kq)
      n == Min(Cardinality(rdy), kargs[t].nevents)
  IN  \E s \in Arrangements(rdy, n) :
        /\ evl' = [evl EXCEPT ![t] = [i \in 1..n |-> Event(s[i])]]
        /\ kres' = [kres EXCEPT ![t] = [ret |-> n, err |-> 0]]
        /\ pc' = [pc EXCEPT ![t] = "kdone"]

Scan(t) ==
  /\ pc[t] = "scan"
  /\ IF kargs[t].nevents = 0 \/ ReadyKnotes(kargs[t].kq) # {}
       THEN Deliver(t) /\ slept' = slept
       ELSE IF kargs[t].timeout = "zero"
         THEN /\ kres' = [kres EXCEPT ![t] = [ret |-> 0, err |-> 0]]
              /\ pc' = [pc EXCEPT ![t] = "kdone"]
              /\ UNCHANGED <<evl, slept>>
         ELSE /\ pc' = [pc EXCEPT ![t] = "blocked"]
              /\ slept' = [slept EXCEPT ![t] = TRUE]
              /\ UNCHANGED <<evl, kres>>
  /\ UNCHANGED <<qvars, regs, ready, handle, wargs, kargs, ninvoke, ci, regs0, wres, intr>>

\* a sleeping call is woken by a knote of its queue becoming ready
Wakeup(t) ==
  /\ pc[t] = "blocked"
  /\ ReadyKnotes(kargs[t].kq) # {}
  /\ Deliver(t)
  /\ UNCHANGED <<qvars, regs, ready, handle, wargs, kargs, ninvoke, ci, regs0, wres, slept, intr>>

\* the timeout of a sleeping call elapses
TimerExpire(t) ==
  /\ pc[t] = "blocked"
  /\ kargs[t].timeout = "finite"
  /\ kres' = [kres EXCEPT ![t] = [ret |-> 0, err |-> 0]]
  /\ pc' = [pc EXCEPT ![t] = "kdone"]
  /\ UNCHANGED <<qvars, regs, ready, handle, wargs, kargs, ninvoke, ci, regs0, evl, wres, slept, intr>>

\* a signal is delivered to a sleeping call
Signal(t) ==
  /\ pc[t] = "blocked"
  /\ kres' = [kres EXCEPT ![t] = [ret |-> -1, err |-> EINTR]]
  /\ intr' = [intr EXCEPT ![t] = TRUE]
  /\ pc' = [pc EXCEPT ![t] = "kdone"]
  /\ UNCHANGED <<qvars, regs, ready, handle, wargs, kargs, ninvoke, ci, regs0, evl, wres, slept>>

\* kevent has returned to kevent_wrapper, which returns its value
Return(t) ==
  /\ pc[t] = "kdone"
  /\ IF ShimAfterKernel(kres[t]) = "return"
       THEN /\ wres' = [wres EXCEPT ![t] = ShimReturn(kres[t])]
            /\ pc' = [pc EXCEPT ![t] = "returned"]
       ELSE /\ wres' = wres
            /\ pc' = [pc EXCEPT ![t] = "wrapper"]
  /\ UNCHANGED <<qvars, regs, ready, handle, wargs, kargs, ninvoke, ci, regs0, evl, kres, slept, intr>>

\* the caller has read the result; the buffers of the call are gone
Done(t) ==
  /\ pc[t] = "returned"
  /\ pc' = [pc EXCEPT ![t] = "idle"]
  /\ handle' = [handle EXCEPT ![t] = "none"]
  /\ wargs' = [wargs EXCEPT ![t] = NoArgs]
  /\ kargs' = [kargs EXCEPT ![t] = NoArgs]
  /\ ninvoke' = [ninvoke EXCEPT ![t] = 0]
  /\ ci' = [ci EXCEPT ![t] = 0]
  /\ regs0' = [regs0 EXCEPT ![t] = {}]
  /\ evl' = [evl EXCEPT ![t] = <<>>]
  /\ kres' = [kres EXCEPT ![t] = NoResult]
  /\ wres' = [wres EXCEPT ![t] = NoResult]
  /\ slept' = [slept EXCEPT ![t] = FALSE]
  /\ intr' = [intr EXCEPT ![t] = FALSE]
  /\ UNCHANGED <<qvars, regs, ready>>

\* --------------------------------------------------- the specifications
\* one caller, one queue number that is opened, closed and reopened
Next ==
  \/ Call(1, QueueFds, Batches, 0..MaxEvents, Timeouts)
  \/ Invoke(1)
  \/ RegisterStep(1)
  \/ RegisterDone(1)
  \/ Scan(1)
  \/ Wakeup(1)
  \/ TimerExpire(1)
  \/ Signal(1)
  \/ Return(1)
  \/ Done(1)
  \/ OpenQueue(3)
  \/ CloseQueue(3)
  \/ \E k \in Keys : SourceReady(k)
  \/ \E k \in Keys : SourceDrained(k)

Spec == Init /\ [][Next]_vars

\* the queue each of the two threads waits on
ThreadQueue(t) == IF t = 1 THEN 3 ELSE 4

\* two callers, each on a queue of its own; calls return at once or wait
\* forever
NextConc ==
  \/ \E t \in Threads : Call(t, {ThreadQueue(t)}, SmallBatches, {1}, {"zero", "NULL"})
  \/ \E t \in Threads : Invoke(t)
  \/ \E t \in Threads : RegisterStep(t)
  \/ \E t \in Threads : RegisterDone(t)
  \/ \E t \in Threads : Scan(t)
  \/ \E t \in Threads : Wakeup(t)
  \/ \E t \in Threads : Signal(t)
  \/ \E t \in Threads : Return(t)
  \/ \E t \in Threads : Done(t)
  \/ SourceReady(<<5, "EVFILT_READ">>)
  \/ SourceDrained(<<5, "EVFILT_READ">>)

ConcSpec == InitConc /\ [][NextConc]_vars

\* one caller on the open queue 3, with the scheduling the kernel gives a
\* thread inside a system call: it keeps running, and its timer fires
NextFair ==
  \/ Call(1, {3}, SmallBatches, 0..1, Timeouts)
  \/ Invoke(1)
  \/ RegisterStep(1)
  \/ RegisterDone(1)
  \/ Scan(1)
  \/ Wakeup(1)
  \/ TimerExpire(1)
  \/ Signal(1)
  \/ Return(1)
  \/ Done(1)
  \/ SourceReady(<<5, "EVFILT_READ">>)
  \/ SourceDrained(<<5, "EVFILT_READ">>)

FairSpec ==
  /\ Init
  /\ [][NextFair]_vars
  /\ WF_vars(Invoke(1))
  /\ WF_vars(RegisterStep(1))
  /\ WF_vars(RegisterDone(1))
  /\ WF_vars(Scan(1))
  /\ WF_vars(TimerExpire(1))
  /\ WF_vars(Return(1))

\* ------------------------------------------------------------ the claims
InKernelOrAfter(t) == pc[t] \in {"register", "scan", "blocked", "kdone", "returned"}

\* the caller's QueueDescriptor is the open queue its number names
HandleValid(t) == handle[t] = "open"

\* a batch applied record by record to a set of knotes, the rejected
\* records reported in order
RECURSIVE Process(_, _, _, _)
Process(kns, cl, i, errs) ==
  IF i > Len(cl) THEN [knotes |-> kns, errs |-> errs]
  ELSE LET r == KnoteRegister(kns, cl[i])
       IN  Process(r.knotes, cl, i + 1,
                   IF r.error = 0 THEN errs ELSE Append(errs, ErrorEvent(cl[i], r.error)))

BatchOutcome(t) == Process(regs0[t], wargs[t].changelist, 1, <<>>)

\* C1: the kernel primitive is invoked with exactly the six arguments
\* kevent_wrapper received, and kevent_wrapper returns exactly the value and
\* error code the kernel primitive returned.
PassThrough ==
  \A t \in Threads :
    /\ InKernelOrAfter(t) => kargs[t] = wargs[t]
    /\ pc[t] = "returned" => wres[t] = kres[t]

\* C1 witness: a call with two change records has returned the raw error of
\* a rejected change.
PassThroughWitness ==
  \E t \in Threads :
    /\ pc[t] = "returned"
    /\ Len(wargs[t].changelist) = 2
    /\ wargs[t].nevents = 1
    /\ wres[t] = [ret |-> -1, err |-> ENOENT]

\* C2 as stated: whenever a batch on an open queue contains records the
\* kernel rejects together with records it accepts, each rejected record is reported as a result record with
\* the error flag and a nonzero code, the call is not aborted, and every
\* other record of the batch is applied.
PartialSuccessAlways ==
  \A t \in Threads :
    (/\ pc[t] = "returned"
     /\ isopen[wargs[t].kq]
     /\ BatchOutcome(t).errs # <<>>
     /\ Len(BatchOutcome(t).errs) < Len(wargs[t].changelist))
      => /\ wres[t] = [ret |-> Len(BatchOutcome(t).errs), err |-> 0]
         /\ evl[t] = BatchOutcome(t).errs
         /\ \A i \in 1..Len(evl[t]) : "EV_ERROR" \in evl[t][i].flags /\ evl[t][i].data # 0
         /\ regs[wargs[t].kq] = BatchOutcome(t).knotes

\* C2 amended: the same, for the calls whose result buffer has room for
\* one record per rejected change (rejected records <= nevents).
PartialSuccessWithRoom ==
  \A t \in Threads :
    (/\ pc[t] = "returned"
     /\ isopen[wargs[t].kq]
     /\ BatchOutcome(t).errs # <<>>
     /\ Len(BatchOutcome(t).errs) < Len(wargs[t].changelist)
     /\ Len(BatchOutcome(t).errs) <= wargs[t].nevents)
      => /\ wres[t] = [ret |-> Len(BatchOutcome(t).errs), err |-> 0]
         /\ evl[t] = BatchOutcome(t).errs
         /\ \A i \in 1..Len(evl[t]) : "EV_ERROR" \in evl[t][i].flags /\ evl[t][i].data # 0
         /\ regs[wargs[t].kq] = BatchOutcome(t).knotes

\* C2 witness: a batch whose first record names the closed descriptor 9 and
\* whose second record is valid has returned one error record, and the
\* second record's interest is registered.
PartialSuccessWitness ==
  \E t \in Threads :
    /\ pc[t] = "returned"
    /\ wargs[t].changelist =
         <<Kevent(9, "EVFILT_READ", {"EV_ADD"}, "A"), Kevent(5, "EVFILT_WRITE", {"EV_ADD"}, "A")>>
    /\ wres[t].ret = 1
    /\ evl[t][1].data = EBADF
    /\ Knote(Kevent(5, "EVFILT_WRITE", {"EV_ADD"}, "A")) \in regs[wargs[t].kq]

\* the outcome of a call the kernel refused for its descriptor
RefusedBadQueue(t) ==
  /\ pc[t] \in {"kdone", "returned"}
  /\ kres[t] = [ret |-> -1, err |-> EBADF]
  /\ pc[t] = "returned" => wres[t] = [ret |-> -1, err |-> EBADF]
  /\ evl[t] = <<>>
  /\ ci[t] = 0
  /\ ~slept[t]

\* C3 as stated: a call on a QueueDescriptor that is not valid (never
\* opened, or closed by its owner) always fails with EBADF (InvalidQueue),
\* never sleeps, applies no change and writes no result record.
InvalidQueueAlways ==
  \A t \in Threads :
    (InKernelOrAfter(t) /\ ~HandleValid(t)) => RefusedBadQueue(t)

\* C3 amended: the same, for the calls whose descriptor number names no open
\* queue when the call is made (never opened, or closed and the number not
\* handed out again since).
InvalidQueueUnlessReused ==
  \A t \in Threads :
    (InKernelOrAfter(t) /\ ~isopen[wargs[t].kq])
      => RefusedBadQueue(t) /\ regs[wargs[t].kq] = {}

\* C3 witness: a wait-forever call with two change records on the closed
\* queue 3 has returned.
InvalidQueueWitness ==
  \E t \in Threads :
    /\ pc[t] = "returned"
    /\ wargs[t].kq = 3
    /\ handle[t] = "closed"
    /\ ~isopen[3]
    /\ wargs[t].timeout = "NULL"
    /\ Len(wargs[t].changelist) = 2
    /\ wargs[t].nevents = 2

\* C4: every call invokes the kernel primitive exactly once, and a call
\* whose sleep a signal interrupted returns -1 with EINTR (Interrupted)
\* without the kernel call being issued again.
KernelInvokedOnce ==
  \A t \in Threads :
    /\ ninvoke[t] <= 1
    /\ InKernelOrAfter(t) => ninvoke[t] = 1
    /\ (pc[t] = "returned" /\ intr[t]) => wres[t] = [ret |-> -1, err |-> EINTR] /\ evl[t] = <<>>

\* C4 witness: an interrupted call has returned.
KernelInvokedOnceWitness ==
  \E t \in Threads : pc[t] = "returned" /\ intr[t] /\ slept[t] /\ ninvoke[t] = 1

\* the kernel step of thread t that copies ready events out (or finds none)
ScanReturns(t) == pc[t] \in {"scan", "blocked"} /\ pc'[t] = "kdone"

\* the kernel step of thread t that applies the next change record
Registers(t) == pc[t] = "register" /\ ci'[t] = ci[t] + 1

NextChange(t) == wargs[t].changelist[ci[t] + 1]

NothingDelivered(t) == \A i \in 1..Len(evl[t]) : "EV_ERROR" \in evl[t][i].flags

\* C7 as stated: a call on an open queue with a finite timeout that no
\* signal interrupts and to which no ready event is delivered returns
\* k = 0 without error.
TimeoutReturnsZeroAlways ==
  \A t \in Threads :
    (/\ pc[t] = "returned"
     /\ isopen[wargs[t].kq]
     /\ wargs[t].timeout = "finite"
     /\ ~intr[t]
     /\ NothingDelivered(t)) => wres[t] = [ret |-> 0, err |-> 0]

\* C7 amended: a call on an open queue with a finite timeout eventually
\* returns; when none of its change records is rejected, no signal
\* interrupts it and no ready event is delivered, it returns k = 0 without
\* error.
TimeoutReturnsZero ==
  /\ [](\A t \in Threads :
          (/\ pc[t] = "returned"
           /\ isopen[wargs[t].kq]
           /\ wargs[t].timeout = "finite"
           /\ BatchOutcome(t).errs = <<>>
           /\ ~intr[t]
           /\ NothingDelivered(t)) => wres[t] = [ret |-> 0, err |-> 0] /\ evl[t] = <<>>)
  /\ \A t \in {1} :
       (pc[t] = "wrapper" /\ wargs[t].timeout = "finite") ~> (pc[t] = "returned")

\* C7 witness: a call with a finite timeout slept and returned 0.
TimeoutReturnsZeroWitness ==
  \E t \in Threads :
    /\ pc[t] = "returned"
    /\ wargs[t].timeout = "finite"
    /\ slept[t]
    /\ ~intr[t]
    /\ wres[t] = [ret |-> 0, err |-> 0]

\* C8: a successful call returns a count k with 0 <= k <= maxResults, with
\* k records written; on an open queue, with no change records, return
\* immediately and maxResults = 0, the call returns k = 0 without error.
CountWithinMaxResults ==
  \A t \in Threads :
    pc[t] = "returned"
      => /\ wres[t].ret >= -1
         /\ wres[t].ret >= 0 => wres[t].ret <= wargs[t].nevents /\ Len(evl[t]) = wres[t].ret
         /\ (/\ isopen[wargs[t].kq]
             /\ wargs[t].changelist = <<>>
             /\ wargs[t].timeout = "zero"
             /\ wargs[t].nevents = 0) => wres[t] = [ret |-> 0, err |-> 0] /\ evl[t] = <<>>

\* C8 witness: a call with maxResults = 1 has returned one record while two
\* interests of its queue were ready.
CountWithinMaxResultsWitness ==
  \E t \in Threads :
    /\ pc[t] = "returned"
    /\ wargs[t].nevents = 1
    /\ wres[t].ret = 1
    /\ Cardinality(ReadyKnotes(wargs[t].kq)) = 2
    /\ "EV_ERROR" \notin evl[t][1].flags

\* what thread u holds for its own call
Locals(u) ==
  <<pc[u], handle[u], wargs[u], kargs[u], ninvoke[u], ci[u], regs0[u], evl[u],
    kres[u], wres[u], slept[u], intr[u]>>

\* the queue a step of thread t works on: that of the call it is in
QueueOf(t) == IF pc[t] = "idle" THEN wargs'[t].kq ELSE wargs[t].kq

\* C9: calls on different queues do not interfere.  A step of one thread's
\* call changes nothing another thread holds and no knote of another queue,
\* the registrations a call leaves are those of the same call made alone,
\* and a thread inside kevent_wrapper can always take its next step,
\* whatever the other thread is doing (sleeping in the kernel included):
\* the wrapper keeps no shared state and takes no lock.
NoInterference ==
  /\ [](\A t \in Threads :
          /\ pc[t] \in {"scan", "blocked"} => regs[wargs[t].kq] = BatchOutcome(t).knotes
          /\ pc[t] = "wrapper" => ENABLED Invoke(t)
          /\ pc[t] = "register" => ENABLED (RegisterStep(t) \/ RegisterDone(t))
          /\ pc[t] = "scan" => ENABLED Scan(t)
          /\ pc[t] = "kdone" => ENABLED Return(t))
  /\ [][\A t \in Threads :
          Locals(t)' # Locals(t)
            => /\ \A u \in Threads \ {t} : Locals(u)' = Locals(u)
               /\ \A fd \in QueueFds \ {QueueOf(t)} : regs'[fd] = regs[fd]
               /\ UNCHANGED <<isopen, closed, ready>>]_vars

\* C9 witness: thread 1 sleeps forever on queue 3 while thread 2 has
\* registered an interest on queue 4 and got its event back.
NoInterferenceWitness ==
  /\ pc[1] = "blocked"
  /\ wargs[1].kq = 3
  /\ pc[2] = "returned"
  /\ wargs[2].kq = 4
  /\ wargs[2].changelist # <<>>
  /\ wres[2].ret = 1
  /\ "EV_ERROR" \notin evl[2][1].flags
  /\ regs[3] = {}

\* C10: the kernel has applied every change record of the batch before the
\* call looks for ready events or sleeps, and the registrations it leaves
\* stay in the queue for later calls: a knote leaves a queue only through a
\* change record for its (identifier, filter) pair or with the queue
\* itself.
SubmittedBeforeWait ==
  /\ [](\A t \in Threads :
          pc[t] \in {"scan", "blocked"}
            => /\ ci[t] = Len(wargs[t].changelist)
               /\ regs[wargs[t].kq] = BatchOutcome(t).knotes)
  /\ [][\A fd \in QueueFds : \A kn \in regs[fd] :
          \/ kn \in regs'[fd]
          \/ isopen[fd] /\ ~isopen'[fd]
          \/ \E t \in Threads :
               /\ Registers(t)
               /\ wargs[t].kq = fd
               /\ Key(NextChange(t)) = Key(kn)]_vars

\* C10 witness: a call that submitted no change record has returned the
\* event of an interest an earlier call registered.
SubmittedBeforeWaitWitness ==
  \E t \in Threads :
    /\ pc[t] = "returned"
    /\ wargs[t].changelist = <<>>
    /\ wres[t].ret = 1
    /\ evl[t][1].udata = "B"

====
